---------------------------- MODULE Spec2Model ----------------------------
(***************************************************************************)
(* Model of pygtail.py (class Pygtail): an incremental log tailer that     *)
(* keeps its read position in a sidecar "offset file" and follows the      *)
(* monitored log through rotation.                                         *)
(*                                                                         *)
(* The file system is modelled by inode: files[i] is the byte content of   *)
(* inode i, dir maps a file name to the inode it is bound to (0 = no such  *)
(* file).  A byte is a natural number: NL (0) is the line terminator and   *)
(* every data byte carries the number of the write that produced it, so    *)
(* that each written line is distinguishable from every other.             *)
(*                                                                         *)
(* next() is modelled step by step (pc): the read, the stat of             *)
(* _is_new_file, the close/reopen and the two steps of the offset file     *)
(* rewrite are separate steps between which the writer, the rotation tool  *)
(* and a crash can act.                                                    *)
(***************************************************************************)
EXTENDS Integers, Sequences, FiniteSets, TLC

\* ------------------------------------------------------------------ bounds
MaxWrites == 3
MaxRot == 1
MaxRuns == 3
\* older rotated files that can stand in the directory of the log
MaxOld == 2
\* opens of the log a single object attempts (its _counter)
MaxOpens == 3

\* --------------------------------------------------------------- constants
NL == 0
None == "None"
\* a line of the sidecar that is not the decimal text of an integer
NaN == -1
\* outcome of a call that ended with OSError (IOError)
IOFailure == "OSError"
LogName == "log"

\* The names the rotation search can see, in lexicographic order (the order
\* of list.sort() on the glob results).
NameOrder ==
    << "log-2024-01-01", "log-20240101", "log-20240101.gz", "log-20240102",
       "log.0", "log.1", "log.1.gz", "log.2024-01-01", "log.old",
       "old/log-20240101", "old/log-20240102", "old/log.1", "old/log.1.gz" >>

RotatedNames == { NameOrder[i] : i \in 1..Len(NameOrder) }
Names == {LogName} \cup RotatedNames

Rank(n) == CHOOSE i \in 1..Len(NameOrder) : NameOrder[i] = n

\* candidate_globs followed by rotated_filename_patterns: each glob is the
\* set of modelled names it matches, in the order of the two lists:
\* .1, .1.[Gg][Zz], -Y-M-D, -Y-M-D.gz, -YMD, -YMD.gz, -YMD-s, -YMD-s.gz,
\* .Y-M-D (TimedRotatingFileHandler).
CandidateGlobs ==
    << {"log.1"}, {"log.1.gz"},
       {"log-2024-01-01"}, {},
       {"log-20240101", "log-20240102"}, {"log-20240101.gz"},
       {}, {},
       {"log.2024-01-01"} >>

\* A value of the log_patterns argument: one pattern, ".old".
OldPattern == << {"log.old"} >>

\* The directories: logdir = os.path.dirname(self.filename), and two values
\* of the olddir argument, a directory that exists and one that does not.
LogDir == "."
OldDir == "old"
NoDir == "missing"

DirExists(d) == d \in {LogDir, OldDir}

\* os.path.join(d, n) for a name n of the log's directory
Join(d, n) == IF d = OldDir THEN "old/" \o n ELSE n

OldNames == { Join(OldDir, n) : n \in UNION { CandidateGlobs[k] : k \in 1..Len(CandidateGlobs) } }

MaxInode == MaxRot + 1 + MaxOld
Inodes == 1..MaxInode

VARIABLES
    \* ---- file system
    files,              \* inode -> byte sequence
    mtime,              \* inode -> modification time
    dir,                \* name -> inode, 0 when the name does not exist
    nIno,               \* inodes allocated so far
    rots,               \* rotations and truncations so far
    offset_file,        \* the sidecar: [exists, lines]
    \* ---- writer (external)
    wfd,                \* inode the writer holds open
    nextId,             \* number of the next write
    \* ---- configuration (keyword arguments of __init__)
    cfg,
    \* ---- Pygtail object
    pc,                 \* "none" (no object), "idle", or the step inside a call
    offset_file_inode,
    offset,
    since_update,
    fh,                 \* [open, ino, pos]
    rotated_logfile,    \* a name, or None
    counter,            \* _counter
    line,               \* local of next(): the line read, to be returned
    pending,            \* locals of update_offset_file: <<inode, offset>>
    retpc,              \* where update_offset_file returns to
    result,             \* outcome of the last call of next()
    \* ---- history
    delivered,          \* lines returned to the caller, over all runs
    written,            \* bytes written by the writer, in write order
    runs,               \* number of objects constructed so far
    hist                \* bookkeeping for the properties

fsVars == <<files, mtime, dir, nIno, rots>>
writerVars == <<wfd, nextId, written>>
objVars == <<pc, offset_file_inode, offset, since_update, fh, rotated_logfile,
             counter, line, pending, retpc, result>>
vars == <<files, mtime, dir, nIno, rots, offset_file, wfd, nextId, cfg,
          pc, offset_file_inode, offset, since_update, fh, rotated_logfile,
          counter, line, pending, retpc, result, delivered, written, runs, hist>>


\* ------------------------------------------------------------------ helpers
Size(i) == Len(files[i])

EndsNL(s) == Len(s) > 0 /\ s[Len(s)] = NL

\* file.readline() at byte position pos of content c: the bytes up to and
\* including the next NL, or up to end of file; empty at or beyond end of file.
ReadLine(c, pos) ==
    IF pos >= Len(c) THEN << >>
    ELSE LET nls == { k \in (pos + 1)..Len(c) : c[k] = NL }
             stop == IF nls = {} THEN Len(c)
                     ELSE CHOOSE k \in nls : \A m \in nls : k <= m
         IN  SubSeq(c, pos + 1, stop)

IsPrefix(s, t) == Len(s) <= Len(t) /\ SubSeq(t, 1, Len(s)) = s

RECURSIVE Flat(_)
Flat(ls) == IF ls = << >> THEN << >> ELSE Head(ls).bytes \o Flat(Tail(ls))

ClosedFh == [open |-> FALSE, ino |-> 0, pos |-> 0]
NoLine == [ino |-> 0, from |-> 0, bytes |-> << >>]
NoPending == << 0, 0 >>

\* ----------------------------------------------------- rotation search
\* self.olddir, as __init__ sets it: self.olddir = None
SelfOlddir == None

\* _check_rotated_filename_candidates: the directory the logrotate
\* candidates are searched in
SearchDir ==
    IF SelfOlddir # None /\ DirExists(SelfOlddir) THEN SelfOlddir ELSE LogDir

\* glob.glob(pattern): the existing names the pattern matches.
Glob(g) == { n \in { Join(SearchDir, m) : m \in g } : dir[n] # 0 }

MaxName(S) == CHOOSE n \in S : \A m \in S : Rank(m) <= Rank(n)

\* rotated_filename_patterns.extend(self.log_patterns)
AllGlobs == CandidateGlobs \o cfg.log_patterns

RECURSIVE FirstGlob(_)
FirstGlob(k) ==
    IF k > Len(AllGlobs) THEN None
    ELSE IF Glob(AllGlobs[k]) # {} THEN MaxName(Glob(AllGlobs[k]))
    ELSE FirstGlob(k + 1)

\* _check_rotated_filename_candidates that takes <path>.0 without comparing
\* the modification times
check_rotated_filename_candidates_AnyAge ==
    IF dir["log.0"] # 0 /\ dir["log.1.gz"] # 0 THEN "log.0" ELSE FirstGlob(1)

\* Pygtail._check_rotated_filename_candidates
check_rotated_filename_candidates ==
    IF /\ dir["log.0"] # 0
       /\ dir["log.1.gz"] # 0
       /\ mtime[dir["log.0"]] > mtime[dir["log.1.gz"]]
    THEN "log.0"
    ELSE FirstGlob(1)

\* _determine_rotated_logfile that trusts a candidate only by its inode
determine_rotated_logfile_ByInode(ofi) ==
    LET rotated_filename == check_rotated_filename_candidates
    IN  IF /\ rotated_filename # None
           /\ dir[rotated_filename] # 0
           /\ dir[rotated_filename] = ofi
        THEN rotated_filename
        ELSE None

\* _determine_rotated_logfile that looks, when the candidate fails, for any
\* rotated file that has the persisted inode
determine_rotated_logfile_AnyFile(ofi) ==
    LET rotated_filename == check_rotated_filename_candidates
        same == { n \in RotatedNames : dir[n] # 0 /\ dir[n] = ofi }
    IN  IF rotated_filename # None /\ dir[rotated_filename] # 0
        THEN IF dir[rotated_filename] = ofi THEN rotated_filename
             ELSE IF dir[LogName] = ofi /\ cfg.copytruncate THEN rotated_filename
             ELSE IF same # {} THEN MaxName(same)
             ELSE None
        ELSE None

\* _determine_rotated_logfile: whether it writes the warning "file size of
\* ... shrank, and copytruncate support is disabled" to stderr
shrank_warning(ofi) ==
    LET rotated_filename == check_rotated_filename_candidates
    IN  /\ rotated_filename # None
        /\ dir[rotated_filename] # 0
        /\ dir[rotated_filename] # ofi
        /\ dir[LogName] = ofi
        /\ ~cfg.copytruncate

\* Pygtail._determine_rotated_logfile, with self.offset_file_inode = ofi
determine_rotated_logfile(ofi) ==
    LET rotated_filename == check_rotated_filename_candidates
    IN  IF rotated_filename # None /\ dir[rotated_filename] # 0
        THEN IF dir[rotated_filename] = ofi THEN rotated_filename
             ELSE IF dir[LogName] = ofi /\ cfg.copytruncate THEN rotated_filename
             ELSE None
        ELSE None

\* --------------------------------------------------------------- faults
\* Variants of the definitions below, each with one plausible fault; a
\* property that is about the code fails when the variant takes the place
\* of the definition.

\* _filehandle that ignores rotated_logfile
FileToOpen_Current == LogName

\* _filehandle that seeks to the start instead of self.offset
SeekOnOpen_Start(i) ==
    IF cfg.read_from_end /\ ~offset_file.exists THEN Size(i) ELSE 0

\* --------------------------------------------------------- file handle
\* Pygtail._filehandle: the open handle, opened at the tracked offset when
\* there is none.  FileToOpen must exist, otherwise open() raises.
FileToOpen == IF rotated_logfile # None THEN rotated_logfile ELSE LogName

CanOpen == fh.open \/ dir[FileToOpen] # 0

SeekOnOpen(i) ==
    IF cfg.read_from_end /\ ~offset_file.exists THEN Size(i) ELSE offset

filehandle ==
    IF fh.open THEN fh
    ELSE [open |-> TRUE, ino |-> dir[FileToOpen],
          pos |-> SeekOnOpen(dir[FileToOpen])]

\* _filehandle that does not count the open
counterAfterOpen_Same == counter

counterAfterOpen == IF fh.open THEN counter ELSE counter + 1

\* Offset(counter, inode, offset) of PygtailIteratorWithOffsets.next, taken
\* after self._pygtail.next() returned a line
OffsetNow ==
    [counter |-> counter, inode |-> filehandle.ino, offset |-> filehandle.pos]

NoOffset == [counter |-> 0, inode |-> 0, offset |-> 0]

\* Offset.__lt__
OffsetLt(a, b) ==
    a.counter < b.counter \/ (a.counter = b.counter /\ a.offset < b.offset)


\* ------------------------------------------------------------- history
\* fresh       the object was constructed and next() was not called yet
\* initMode    how __init__ resolved the persisted position
\* loaded      the sidecar content __init__ found
\* undisturbed no rotation or truncation since the object was constructed
\* stable      no file was changed since the last completed sidecar write
\* initStable  stable held at construction and no file was changed since
\* updated     the caller called update_offset_file on the fresh object
\* dirty       a file was changed since the current call of next() began
\* quiet       number (at most 2) of calls in a row that signalled EXHAUSTED
\*             with no file changed since the first of them began
\* quietRun    the run that made the last of these calls
\* crossed     the last two of these calls were made by different objects
\* plainSince  no object constructed since the last of these calls suspected
\*             a rotation
\* frag        where the first read of the current next() met an unterminated
\*             fragment: <<inode, position>>, or <<0, 0>>
\* drainCommit the sidecar was last written while a rotated file was active
\* drainRun    the object was constructed from such a sidecar and found the file
\* kept        the line whose Offset the consumer wrote to the sidecar, as long
\*             as the object that returned it made no commit afterwards: the
\*             number of its write, the run, whether a rotated file was active
\* candidate   what the candidate search of __init__ returned, or NotCalled
\* warned      the warnings __init__ wrote to stderr
\* lastOffset  the Offset that goes with the line the object returned last
\* ioerror     a call of next() on the object ended with an I/O error
\* lost        the fragments next() left unread in a rotated file when it went
\*             on with the monitored path, as long as the sidecar a later
\*             object starts from lies in the file next() went on with
NoFrag == << 0, 0 >>
NotCalled == "NotCalled"
NoKept == [id |-> 0, run |-> 0, draining |-> FALSE]

InitHist ==
    [fresh |-> TRUE, initMode |-> "plain", loaded |-> << >>,
     undisturbed |-> TRUE, stable |-> FALSE, initStable |-> FALSE,
     updated |-> FALSE, dirty |-> FALSE, quiet |-> 0, quietRun |-> 0,
     crossed |-> FALSE, plainSince |-> FALSE, frag |-> NoFrag, drainCommit |-> FALSE,
     drainRun |-> FALSE, kept |-> NoKept, candidate |-> NotCalled,
     warned |-> {}, lastOffset |-> NoOffset,
     lost |-> {}, ioerror |-> FALSE]

FsChanged(h) ==
    [h EXCEPT !.stable = FALSE, !.initStable = FALSE, !.dirty = TRUE,
              !.quiet = 0]

FsRotated(h) == [FsChanged(h) EXCEPT !.undisturbed = FALSE]

\* The fragment a switch of next() leaves behind in a rotated file: the data
\* byte at the read position, with the inode of the file next() goes on with.
LeftUnread ==
    IF rotated_logfile # None /\ fh.open /\ fh.pos < Size(fh.ino)
    THEN { [byte |-> files[fh.ino][fh.pos + 1], newino |-> dir[LogName]] }
    ELSE {}

\* ---------------------------------------------------------------- Init
Configs ==
    [paranoid : BOOLEAN, every_n : {0, 2}, copytruncate : BOOLEAN,
     read_from_end : BOOLEAN, full_lines : BOOLEAN, save_on_end : BOOLEAN,
     olddir : {None}, log_patterns : {<< >>}]

\* Pygtail.__init__ defaults
DefaultConfig ==
    [paranoid |-> FALSE, every_n |-> 0, copytruncate |-> TRUE,
     read_from_end |-> FALSE, full_lines |-> FALSE, save_on_end |-> TRUE,
     olddir |-> None, log_patterns |-> << >>]

\* A log file exists (empty) and is held open by its writer, there is no
\* sidecar, and a Pygtail object has just been constructed with config c.
InitWith(c) ==
    /\ files = [i \in Inodes |-> << >>]
    /\ mtime = [i \in Inodes |-> 0]
    /\ dir = [n \in Names |-> IF n = LogName THEN 1 ELSE 0]
    /\ nIno = 1
    /\ rots = 0
    /\ offset_file = [exists |-> FALSE, lines |-> << >>]
    /\ wfd = 1
    /\ nextId = 1
    /\ cfg = c
    /\ pc = "idle"
    /\ offset_file_inode = 0
    /\ offset = 0
    /\ since_update = 0
    /\ fh = ClosedFh
    /\ rotated_logfile = None
    /\ counter = 0
    /\ line = NoLine
    /\ pending = NoPending
    /\ retpc = "idle"
    /\ result = "none"
    /\ delivered = << >>
    /\ written = << >>
    /\ runs = 1
    /\ hist = InitHist

\* ------------------------------------------------- environment: writer
\* The writer appends one write to the file it holds open: a whole line
\* (a data byte and NL), or an unterminated fragment (a data byte).
Chunk(kind) == IF kind = "line" THEN << nextId, NL >> ELSE << nextId >>

WriterAppend(kind) ==
    /\ nextId <= MaxWrites
    /\ files' = [files EXCEPT ![wfd] = @ \o Chunk(kind)]
    /\ written' = written \o Chunk(kind)
    /\ nextId' = nextId + 1
    /\ hist' = FsChanged(hist)
    /\ UNCHANGED <<mtime, dir, nIno, rots, offset_file, wfd, cfg, objVars,
                   delivered, runs>>

AppendLine == WriterAppend("line")

AppendFragment == WriterAppend("frag")

\* The writer reopens the monitored path (after the rotation tool signals it).
WriterReopen ==
    /\ dir[LogName] # 0
    /\ wfd # dir[LogName]
    /\ wfd' = dir[LogName]
    /\ UNCHANGED <<fsVars, offset_file, nextId, written, cfg, objVars,
                   delivered, runs, hist>>

\* ---------------------------------------------- environment: rotation
\* logrotate without copytruncate: rename the log to <name>.1 and create a
\* new, empty file at the monitored path.
RotateRename ==
    /\ rots < MaxRot
    /\ dir[LogName] # 0
    /\ nIno < MaxInode
    /\ dir' = [dir EXCEPT !["log.1"] = dir[LogName], ![LogName] = nIno + 1]
    /\ nIno' = nIno + 1
    /\ rots' = rots + 1
    /\ hist' = FsRotated(hist)
    /\ UNCHANGED <<files, mtime, offset_file, writerVars, cfg, objVars,
                   delivered, runs>>

\* logrotate in two steps: the log is renamed to <name>.1, and for a while
\* no file stands at the monitored path ...
RenameAway ==
    /\ rots < MaxRot
    /\ dir[LogName] # 0
    /\ dir' = [dir EXCEPT !["log.1"] = dir[LogName], ![LogName] = 0]
    /\ rots' = rots + 1
    /\ hist' = FsRotated(hist)
    /\ UNCHANGED <<files, mtime, nIno, offset_file, writerVars, cfg, objVars,
                   delivered, runs>>

\* ... until the new, empty file is created.
CreateNew ==
    /\ dir[LogName] = 0
    /\ nIno < MaxInode
    /\ dir' = [dir EXCEPT ![LogName] = nIno + 1]
    /\ nIno' = nIno + 1
    /\ hist' = FsRotated(hist)
    /\ UNCHANGED <<files, mtime, rots, offset_file, writerVars, cfg, objVars,
                   delivered, runs>>

\* logrotate with the olddir directive: rename the log to <olddir>/<name>.1
\* and create a new, empty file at the monitored path.
RotateToOlddir ==
    /\ rots < MaxRot
    /\ dir[LogName] # 0
    /\ nIno < MaxInode
    /\ dir' = [dir EXCEPT ![Join(OldDir, "log.1")] = dir[LogName],
                          ![LogName] = nIno + 1]
    /\ nIno' = nIno + 1
    /\ rots' = rots + 1
    /\ hist' = FsRotated(hist)
    /\ UNCHANGED <<files, mtime, offset_file, writerVars, cfg, objVars,
                   delivered, runs>>

\* Rotation to a name no pattern of the search matches (or removal): the
\* old file leaves the directory and a new file is created.
RotateAway ==
    /\ rots < MaxRot
    /\ dir[LogName] # 0
    /\ nIno < MaxInode
    /\ dir' = [dir EXCEPT ![LogName] = nIno + 1]
    /\ nIno' = nIno + 1
    /\ rots' = rots + 1
    /\ hist' = FsRotated(hist)
    /\ UNCHANGED <<files, mtime, offset_file, writerVars, cfg, objVars,
                   delivered, runs>>

\* logrotate copytruncate: copy the log to <name>.1, truncate it in place.
CopyTruncate ==
    /\ rots < MaxRot
    /\ dir[LogName] # 0
    /\ nIno < MaxInode
    /\ Size(dir[LogName]) > 0
    /\ files' = [files EXCEPT ![nIno + 1] = files[dir[LogName]],
                              ![dir[LogName]] = << >>]
    /\ dir' = [dir EXCEPT !["log.1"] = nIno + 1]
    /\ nIno' = nIno + 1
    /\ rots' = rots + 1
    /\ hist' = FsRotated(hist)
    /\ UNCHANGED <<mtime, offset_file, writerVars, cfg, objVars,
                   delivered, runs>>

\* The log is truncated in place and no copy is kept.
Truncate ==
    /\ rots < MaxRot
    /\ dir[LogName] # 0
    /\ Size(dir[LogName]) > 0
    /\ files' = [files EXCEPT ![dir[LogName]] = << >>]
    /\ rots' = rots + 1
    /\ hist' = FsRotated(hist)
    /\ UNCHANGED <<mtime, dir, nIno, offset_file, writerVars, cfg, objVars,
                   delivered, runs>>


\* ------------------------------------------------------ Pygtail.__init__
\* The process starts (again) and constructs a Pygtail from the sidecar.
SidecarHas == offset_file.exists /\ Len(offset_file.lines) > 0

LoadedInode == IF SidecarHas THEN offset_file.lines[1] ELSE 0

\* __init__ that takes the two lines of the sidecar in the wrong order
LoadedOffset_Swapped == IF SidecarHas THEN offset_file.lines[1] ELSE 0

LoadedOffset == IF SidecarHas THEN offset_file.lines[2] ELSE 0

RotationSuspected ==
    /\ SidecarHas
    /\ \/ LoadedInode # dir[LogName]
       \/ Size(dir[LogName]) < LoadedOffset

InitRotated ==
    IF RotationSuspected THEN determine_rotated_logfile(LoadedInode) ELSE None

\* __init__ that resets when a rotated file was found
InitReset_Inverted ==
    RotationSuspected /\ cfg.copytruncate /\ InitRotated # None

InitReset == RotationSuspected /\ cfg.copytruncate /\ InitRotated = None

\* what __init__ writes to stderr
InitWarnings ==
    (IF RotationSuspected /\ shrank_warning(LoadedInode)
     THEN {"shrank"} ELSE {})
    \cup (IF InitReset THEN {"reset"} ELSE {})

InitModeOf ==
    IF ~RotationSuspected THEN "plain"
    ELSE IF InitRotated = None THEN (IF cfg.copytruncate THEN "reset" ELSE "ignore")
    ELSE IF dir[InitRotated] = LoadedInode THEN "drain"
    ELSE "trust"

\* (self.offset_file_inode, self.offset) = [int(line.strip()) for line in
\* offset_fh]: every line converts with int() and there are exactly two.
Parses ==
    /\ \A k \in 1..Len(offset_file.lines) : offset_file.lines[k] # NaN
    /\ Len(offset_file.lines) = 2

\* __init__ on a non-empty sidecar that does not parse: int() or the
\* unpacking into two names raises ValueError, no object is constructed.
ConstructFails ==
    /\ pc = "none"
    /\ runs < MaxRuns
    /\ SidecarHas
    /\ ~Parses
    /\ runs' = runs + 1
    /\ result' = "ValueError"
    /\ UNCHANGED <<fsVars, offset_file, writerVars, cfg, pc, offset_file_inode,
                   offset, since_update, fh, rotated_logfile, counter, line,
                   pending, retpc, delivered, hist>>

Construct ==
    /\ pc = "none"
    /\ runs < MaxRuns
    /\ SidecarHas => (Parses /\ dir[LogName] # 0)
    /\ runs' = runs + 1
    /\ offset_file_inode' = LoadedInode
    /\ offset' = IF InitReset THEN 0 ELSE LoadedOffset
    /\ rotated_logfile' = InitRotated
    /\ since_update' = 0
    /\ fh' = ClosedFh
    /\ counter' = 0
    /\ line' = NoLine
    /\ pending' = NoPending
    /\ result' = "none"
    /\ retpc' = "idle"
    /\ pc' = IF InitReset THEN "upd" ELSE "idle"
    /\ hist' = [hist EXCEPT !.fresh = TRUE, !.initMode = InitModeOf,
                            !.loaded = offset_file.lines,
                            !.initStable = hist.stable /\ SidecarHas,
                            !.undisturbed = TRUE,
                            !.plainSince = hist.plainSince /\ InitModeOf = "plain",
                            !.updated = FALSE, !.dirty = FALSE,
                            !.frag = NoFrag,
                            !.drainRun = hist.drainCommit /\ InitModeOf = "drain",
                            !.candidate = IF RotationSuspected
                                          THEN check_rotated_filename_candidates
                                          ELSE NotCalled,
                            !.warned = InitWarnings,
                            !.lastOffset = NoOffset,
                            !.lost = { r \in hist.lost :
                                         SidecarHas /\ r.newino = LoadedInode },
                            !.ioerror = FALSE]
    /\ UNCHANGED <<fsVars, offset_file, writerVars, cfg>>

\* ---------------------------------------------------------- Pygtail.next
\* The caller calls next().
Call ==
    /\ pc = "idle"
    /\ pc' = "get1"
    /\ line' = NoLine
    /\ hist' = [hist EXCEPT !.fresh = FALSE, !.dirty = FALSE,
                            !.frag = NoFrag]
    /\ UNCHANGED <<fsVars, offset_file, writerVars, cfg, offset_file_inode,
                   offset, since_update, fh, rotated_logfile, counter, pending,
                   retpc, result, delivered, runs>>

\* Pygtail._get_next_line on handle h: the line read, or << >> for
\* StopIteration (nothing read, or an unterminated line under full_lines).
get_next_line(h) ==
    LET l == ReadLine(files[h.ino], h.pos)
    IN  IF cfg.full_lines /\ ~EndsNL(l) THEN << >> ELSE l

\* next() that commits one line late under every_n
CommitAfterLine_Late(n) ==
    cfg.paranoid \/ (cfg.every_n # 0 /\ cfg.every_n < n)

\* next(): whether the sidecar is rewritten after a line was read
CommitAfterLine(n) ==
    cfg.paranoid \/ (cfg.every_n # 0 /\ cfg.every_n <= n)

\* next() that commits at EXHAUSTED whatever save_on_end says
AfterStopIteration_Always == "upd"

\* next(): except StopIteration: if self.save_on_end: update_offset_file();
\* raise
AfterStopIteration == IF cfg.save_on_end THEN "upd" ELSE "raise"

\* One call of _get_next_line from next(): the first (which = "get1") or the
\* one after the switch to the current log file (which = "get2").
Get(which) ==
    /\ pc = which
    /\ CanOpen
    /\ LET h == filehandle
           l == get_next_line(h)
       IN  /\ counter' = counterAfterOpen
           /\ IF l = << >>
              THEN /\ fh' = h
                   /\ line' = NoLine
                   /\ since_update' = since_update
                   /\ pc' = IF which = "get1" THEN "isnew"
                            ELSE AfterStopIteration
                   /\ retpc' = "raise"
                   /\ hist' = IF which = "get1" /\ h.pos < Size(h.ino)
                              THEN [hist EXCEPT !.frag = << h.ino, h.pos >>]
                              ELSE hist
              ELSE /\ fh' = [h EXCEPT !.pos = h.pos + Len(l)]
                   /\ line' = [ino |-> h.ino, from |-> h.pos, bytes |-> l]
                   /\ since_update' = since_update + 1
                   /\ pc' = IF CommitAfterLine(since_update + 1)
                            THEN "upd" ELSE "ret"
                   /\ retpc' = "ret"
                   /\ hist' = hist
    /\ UNCHANGED <<fsVars, offset_file, writerVars, cfg, offset_file_inode,
                   offset, rotated_logfile, pending, result, delivered, runs>>

Get1 == Get("get1")

Get2 == Get("get2")

\* _is_new_file that leaves a rotated file only at its end
is_new_file_AtEnd ==
    /\ filehandle.pos = Size(filehandle.ino)
    /\ \/ rotated_logfile # None
       \/ filehandle.ino # dir[LogName]

\* Pygtail._is_new_file
is_new_file ==
    \/ rotated_logfile # None
    \/ /\ filehandle.pos = Size(filehandle.ino)
       /\ filehandle.ino # dir[LogName]

\* next(): the except branch after the first StopIteration
IsNew ==
    /\ pc = "isnew"
    /\ (rotated_logfile = None /\ fh.pos = Size(fh.ino)) => dir[LogName] # 0
    /\ pc' = IF is_new_file THEN "switch" ELSE AfterStopIteration
    /\ retpc' = "raise"
    /\ UNCHANGED <<fsVars, offset_file, writerVars, cfg, offset_file_inode,
                   offset, since_update, fh, rotated_logfile, counter, line,
                   pending, result, delivered, runs, hist>>

\* next() that does not close the handle before it goes on with the
\* monitored path
Switch_NoClose ==
    /\ pc = "switch"
    /\ rotated_logfile' = None
    /\ offset' = 0
    /\ pc' = "get2"
    /\ UNCHANGED <<fsVars, offset_file, writerVars, cfg, offset_file_inode,
                   since_update, fh, counter, line, pending, retpc, result,
                   delivered, runs, hist>>

\* next() that takes a missing monitored path for "no new file" and ends
\* the call as at EXHAUSTED
IsNewFails_Exhausted ==
    /\ pc = "isnew"
    /\ rotated_logfile = None
    /\ fh.pos = Size(fh.ino)
    /\ dir[LogName] = 0
    /\ pc' = AfterStopIteration
    /\ retpc' = "raise"
    /\ UNCHANGED <<fsVars, offset_file, writerVars, cfg, offset_file_inode,
                   offset, since_update, fh, rotated_logfile, counter, line,
                   pending, result, delivered, runs, hist>>

\* next(): _is_new_file reaches stat(self.filename) and no file stands at
\* the monitored path: OSError leaves next() from inside the except branch.
IsNewFails ==
    /\ pc = "isnew"
    /\ rotated_logfile = None
    /\ fh.pos = Size(fh.ino)
    /\ dir[LogName] = 0
    /\ pc' = "idle"
    /\ result' = IOFailure
    /\ hist' = [hist EXCEPT !.ioerror = TRUE, !.quiet = 0]
    /\ UNCHANGED <<fsVars, offset_file, writerVars, cfg, offset_file_inode,
                   offset, since_update, fh, rotated_logfile, counter, line,
                   pending, retpc, delivered, runs>>

\* _get_next_line: _filehandle counts the open and open() finds no file:
\* the error leaves next().
GetFails ==
    /\ pc \in {"get1", "get2"}
    /\ ~CanOpen
    /\ counter < MaxOpens
    /\ counter' = counter + 1
    /\ pc' = "idle"
    /\ result' = IOFailure
    /\ hist' = [hist EXCEPT !.ioerror = TRUE, !.quiet = 0]
    /\ UNCHANGED <<fsVars, offset_file, writerVars, cfg, offset_file_inode,
                   offset, since_update, fh, rotated_logfile, line, pending,
                   retpc, delivered, runs>>

\* next(): rotated_logfile = None; fh.close(); offset = 0
Switch ==
    /\ pc = "switch"
    /\ rotated_logfile' = None
    /\ fh' = [fh EXCEPT !.open = FALSE]
    /\ offset' = 0
    /\ pc' = "get2"
    /\ hist' = [hist EXCEPT !.lost = @ \cup LeftUnread]
    /\ UNCHANGED <<fsVars, offset_file, writerVars, cfg, offset_file_inode,
                   since_update, counter, line, pending, retpc, result,
                   delivered, runs>>

\* next() returns the line to the caller.
Return ==
    /\ pc = "ret"
    /\ delivered' = Append(delivered, line)
    /\ result' = "line"
    /\ pc' = "idle"
    /\ hist' = [hist EXCEPT !.quiet = 0, !.lastOffset = OffsetNow]
    /\ UNCHANGED <<fsVars, offset_file, writerVars, cfg, offset_file_inode,
                   offset, since_update, fh, rotated_logfile, counter, line,
                   pending, retpc, runs>>

\* next() raises StopIteration: EXHAUSTED.
Raise ==
    /\ pc = "raise"
    /\ result' = "exhausted"
    /\ pc' = "idle"
    /\ hist' = IF hist.dirty THEN [hist EXCEPT !.quiet = 0]
               ELSE [hist EXCEPT !.quiet = IF hist.quiet = 0 THEN 1 ELSE 2,
                                 !.quietRun = runs,
                                 !.plainSince = TRUE,
                                 !.crossed = (hist.quiet > 0 /\ hist.quietRun # runs)]
    /\ UNCHANGED <<fsVars, offset_file, writerVars, cfg, offset_file_inode,
                   offset, since_update, fh, rotated_logfile, counter, line,
                   pending, retpc, delivered, runs>>

\* ------------------------------------------- Pygtail.update_offset_file
\* The caller calls update_offset_file() itself.
CallUpdate ==
    /\ pc = "idle"
    /\ hist.fresh
    /\ ~hist.updated
    /\ pc' = "upd"
    /\ retpc' = "idle"
    /\ hist' = [hist EXCEPT !.updated = TRUE]
    /\ UNCHANGED <<fsVars, offset_file, writerVars, cfg, offset_file_inode,
                   offset, since_update, fh, rotated_logfile, counter, line,
                   pending, result, delivered, runs>>

\* update_offset_file that writes self.offset instead of tell()
CommitPosition_Stale ==
    << (IF fh.open THEN fh.ino ELSE dir[FileToOpen]), offset >>

\* update_offset_file that writes the inode of the monitored path,
\* stat(self.filename).st_ino, instead of the inode of the handle
CommitPosition_Path ==
    << dir[LogName], (IF fh.open THEN fh.pos ELSE SeekOnOpen(dir[FileToOpen])) >>

\* update_offset_file that writes what __init__ loaded from the sidecar
CommitPosition_Loaded == << offset_file_inode, offset >>

\* update_offset_file: the position it writes, <<inode, offset>>, taken from
\* the active handle: fstat(_filehandle().fileno()).st_ino, _filehandle().tell()
CommitPosition == << filehandle.ino, filehandle.pos >>

\* offset = _filehandle().tell(); inode = fstat(...).st_ino;
\* fh = open(self.offset_file, "w"): the sidecar is truncated.
update_offset_file_open ==
    /\ pc = "upd"
    /\ CanOpen
    /\ fh' = filehandle
    /\ counter' = counterAfterOpen
    /\ pending' = CommitPosition
    /\ offset_file' = [exists |-> TRUE, lines |-> << >>]
    /\ pc' = "updw"
    /\ hist' = [hist EXCEPT !.stable = FALSE]
    /\ UNCHANGED <<fsVars, writerVars, cfg, offset_file_inode, offset,
                   since_update, rotated_logfile, line, retpc, result,
                   delivered, runs>>

\* fh.write("%s\n%s\n" % (inode, offset)); fh.close(); since_update = 0
update_offset_file_write ==
    /\ pc = "updw"
    /\ offset_file' = [exists |-> TRUE, lines |-> pending]
    /\ since_update' = 0
    /\ pending' = NoPending
    /\ pc' = retpc
    /\ hist' = [hist EXCEPT !.stable = TRUE,
                            !.drainCommit = (rotated_logfile # None),
                            !.kept = IF hist.kept.run = runs THEN NoKept
                                     ELSE hist.kept]
    /\ UNCHANGED <<fsVars, writerVars, cfg, offset_file_inode, offset, fh,
                   rotated_logfile, counter, line, retpc, result, delivered,
                   runs>>

\* ------------------------------------- with_offsets, write_offset_to_file
\* The consumer of with_offsets() calls write_offset_to_file with the Offset
\* paired with the line it was just given.
PersistOffset ==
    /\ pc = "idle"
    /\ result = "line"
    /\ CanOpen
    /\ offset_file' = [exists |-> TRUE,
                       lines |-> << OffsetNow.inode, OffsetNow.offset >>]
    /\ hist' = [hist EXCEPT !.stable = FALSE, !.drainCommit = FALSE,
                            !.quiet = 0,
                            !.kept = [id |-> line.bytes[1], run |-> runs,
                                      draining |-> rotated_logfile # None]]
    /\ UNCHANGED <<fsVars, writerVars, cfg, objVars, delivered, runs>>

\* ------------------------------------------------------------ process end
Gone ==
    /\ pc' = "none"
    /\ offset_file_inode' = 0
    /\ offset' = 0
    /\ since_update' = 0
    /\ fh' = ClosedFh
    /\ rotated_logfile' = None
    /\ counter' = 0
    /\ line' = NoLine
    /\ pending' = NoPending
    /\ retpc' = "idle"
    /\ result' = "none"
    /\ UNCHANGED <<fsVars, offset_file, writerVars, cfg, delivered, runs, hist>>

\* The caller read until EXHAUSTED and the process ends; __del__ closes the
\* handle.
ExitAtEnd ==
    /\ pc = "idle"
    /\ result = "exhausted"
    /\ Gone

\* The caller stops iterating at any point between two calls and the process
\* ends; __del__ closes the handle.
Exit ==
    /\ pc = "idle"
    /\ Gone

\* The process is killed at any step.
Crash ==
    /\ pc # "none"
    /\ Gone


\* ------------------------------------------- environment: the sidecar
\* Between two runs the sidecar is left holding something else than two
\* integers: one line only (a partial write), three lines, a line that is no
\* number, or nothing at all.
Malformed ==
    { << >>, << 1 >>, << 1, 2, 3 >>, << NaN, 2 >>, << 1, NaN >> }

Damage ==
    /\ pc = "none"
    /\ offset_file.exists
    /\ \E m \in Malformed : offset_file' = [exists |-> TRUE, lines |-> m]
    /\ hist' = [hist EXCEPT !.stable = FALSE, !.quiet = 0,
                            !.drainCommit = FALSE]
    /\ UNCHANGED <<fsVars, writerVars, cfg, objVars, delivered, runs>>

\* ------------------------------------------------------- specifications
\* A new process constructs the object; delivered goes on recording the
\* lines of all runs.
Restart ==
    /\ Construct
    /\ UNCHANGED delivered

\* A new process constructs the object; delivered records the lines its
\* caller is given.
Start ==
    /\ Construct
    /\ delivered' = << >>

AtRest == pc \in {"idle", "none"}

ReadSteps ==
    \/ Call
    \/ Get1
    \/ IsNew
    \/ Return
    \/ Raise
    \/ update_offset_file_open
    \/ update_offset_file_write

SwitchSteps ==
    \/ Switch
    \/ Get2

\* SpecRuns: appends at any moment, interleaved with runs that each read
\* until EXHAUSTED; default configuration, no rotation.
InitRuns == InitWith(DefaultConfig)

NextRuns ==
    \/ AppendLine
    \/ AppendFragment
    \/ ReadSteps
    \/ ExitAtEnd
    \/ Restart

SpecRuns == InitRuns /\ [][NextRuns]_vars

\* Spec: whole lines, every kind of rotation and truncation, the caller
\* stopping after any call; files change between the calls of the tailer.
\* The configurations are the default and those that differ from it in one
\* keyword argument.
OneOff ==
    { c \in Configs :
        Cardinality({ k \in DOMAIN c : c[k] # DefaultConfig[k] }) <= 1 }

Init == \E c \in OneOff : InitWith(c)

Next ==
    \/ AtRest /\ AppendLine
    \/ AtRest /\ WriterReopen
    \/ AtRest /\ RotateRename
    \/ AtRest /\ RotateAway
    \/ AtRest /\ CopyTruncate
    \/ AtRest /\ Truncate
    \/ ReadSteps
    \/ SwitchSteps
    \/ CallUpdate
    \/ Exit
    \/ Start

Spec == Init /\ [][Next]_vars

\* SpecPartial: complete-lines-only (full_lines); the writer appends whole
\* lines and unterminated fragments, the log is rotated by renaming.
InitPartial == InitWith([DefaultConfig EXCEPT !.full_lines = TRUE])

NextPartial ==
    \/ AtRest /\ AppendLine
    \/ AtRest /\ AppendFragment
    \/ AtRest /\ WriterReopen
    \/ AtRest /\ RotateRename
    \/ ReadSteps
    \/ SwitchSteps
    \/ Exit
    \/ Start

SpecPartial == InitPartial /\ [][NextPartial]_vars

\* SpecConc: one object polls while the writer appends to the file it holds
\* open and the log is rotated by renaming under the open handle of the
\* tailer; the writer and the rotation act between any two steps of next().
InitConc == InitWith(DefaultConfig)

NextConc ==
    \/ AppendLine
    \/ WriterReopen
    \/ fh.open /\ RotateRename
    \/ ReadSteps
    \/ SwitchSteps

SpecConc == InitConc /\ [][NextConc]_vars

\* SpecCrash: the process can be killed at any step and is started again
\* from the sidecar; every commit mode, appends at any moment.
CommitModes ==
    { c \in OneOff : /\ c.copytruncate /\ ~c.read_from_end
                     /\ ~c.full_lines /\ c.save_on_end }

InitCrash == \E c \in CommitModes : InitWith(c)

NextCrash ==
    \/ AppendLine
    \/ ReadSteps
    \/ Crash
    \/ Restart

SpecCrash == InitCrash /\ [][NextCrash]_vars

\* SpecSidecar: runs of the default configuration between which the sidecar
\* can be damaged.
InitSidecar == InitWith(DefaultConfig)

NextSidecar ==
    \/ AtRest /\ AppendLine
    \/ ReadSteps
    \/ Exit
    \/ Damage
    \/ Start
    \/ ConstructFails

SpecSidecar == InitSidecar /\ [][NextSidecar]_vars

\* SpecFromEnd: start-at-end (read_from_end), with and without the commit
\* at EXHAUSTED; whole lines, rotation by renaming, the process can be
\* killed at any step.
InitFromEnd ==
    \E b \in BOOLEAN :
        InitWith([DefaultConfig EXCEPT !.read_from_end = TRUE,
                                       !.save_on_end = b])

NextFromEnd ==
    \/ AtRest /\ AppendLine
    \/ AtRest /\ WriterReopen
    \/ AtRest /\ RotateRename
    \/ ReadSteps
    \/ SwitchSteps
    \/ Crash
    \/ Start

SpecFromEnd == InitFromEnd /\ [][NextFromEnd]_vars

\* SpecOlddir: the olddir argument names a directory, one that exists or
\* one that does not; the log is rotated by renaming, into that directory
\* or within its own.
InitOlddir ==
    \E d \in {OldDir, NoDir} : InitWith([DefaultConfig EXCEPT !.olddir = d])

NextOlddir ==
    \/ AtRest /\ AppendLine
    \/ AtRest /\ WriterReopen
    \/ AtRest /\ RotateToOlddir
    \/ AtRest /\ RotateRename
    \/ ReadSteps
    \/ SwitchSteps
    \/ Exit
    \/ Start

SpecOlddir == InitOlddir /\ [][NextOlddir]_vars

\* SpecOffsets: the consumer iterates with with_offsets() and persists
\* Offsets itself; with and without the commit at EXHAUSTED; whole lines,
\* rotation by renaming.
InitOffsets ==
    \E b \in BOOLEAN : InitWith([DefaultConfig EXCEPT !.save_on_end = b])

NextOffsets ==
    \/ AtRest /\ AppendLine
    \/ AtRest /\ WriterReopen
    \/ AtRest /\ RotateRename
    \/ ReadSteps
    \/ SwitchSteps
    \/ PersistOffset
    \/ Exit
    \/ Start

SpecOffsets == InitOffsets /\ [][NextOffsets]_vars

\* SpecOffsetsPrompt: as SpecOffsets, with a writer that appends only to the
\* file at the monitored path (it reopens the path before it writes again
\* after a rotation), so that no line is appended to a file the tailer has
\* left.
NextOffsetsPrompt ==
    \/ AtRest /\ wfd = dir[LogName] /\ AppendLine
    \/ AtRest /\ WriterReopen
    \/ AtRest /\ RotateRename
    \/ ReadSteps
    \/ SwitchSteps
    \/ PersistOffset
    \/ Exit
    \/ Start

SpecOffsetsPrompt == InitOffsets /\ [][NextOffsetsPrompt]_vars

\* SpecSearch: a process starts in a directory that holds the log, up to
\* MaxOld older files under rotated names, and the sidecar an earlier run
\* left; copytruncate on or off, with and without a pattern of the caller.
SearchNames ==
    {"log.0", "log.old"} \cup
    UNION { CandidateGlobs[k] : k \in 1..Len(CandidateGlobs) }

OldFileSets == { S \in SUBSET SearchNames : Cardinality(S) <= MaxOld }

\* the older files get the inodes after the log's, in the order of their names
InodeIn(S, n) == 1 + Cardinality({ m \in S : Rank(m) <= Rank(n) })

InitSearch ==
    \E S \in OldFileSets, b \in BOOLEAN, lp \in {<< >>, OldPattern},
       ino \in Inodes, off \in {2, 4} :
      \E mt \in [2..(1 + Cardinality(S)) -> {1, 2}] :
        /\ files = [i \in Inodes |->
                       IF i = 1 THEN << 1, NL >>
                       ELSE IF i <= 1 + Cardinality(S)
                            THEN << 10 * i, NL, 10 * i + 1, NL >>
                            ELSE << >>]
        /\ mtime = [i \in Inodes |-> IF i \in DOMAIN mt THEN mt[i] ELSE 0]
        /\ dir = [n \in Names |-> IF n = LogName THEN 1
                                  ELSE IF n \in S THEN InodeIn(S, n) ELSE 0]
        /\ nIno = 1 + Cardinality(S)
        /\ rots = 0
        /\ offset_file = [exists |-> TRUE, lines |-> << ino, off >>]
        /\ wfd = 1
        /\ nextId = 1
        /\ cfg = [DefaultConfig EXCEPT !.copytruncate = b,
                                       !.log_patterns = lp]
        /\ pc = "none"
        /\ offset_file_inode = 0
        /\ offset = 0
        /\ since_update = 0
        /\ fh = ClosedFh
        /\ rotated_logfile = None
        /\ counter = 0
        /\ line = NoLine
        /\ pending = NoPending
        /\ retpc = "idle"
        /\ result = "none"
        /\ delivered = << >>
        /\ written = << >>
        /\ runs = 1
        /\ hist = InitHist

NextSearch ==
    \/ ReadSteps
    \/ SwitchSteps
    \/ Exit
    \/ Start

SpecSearch == InitSearch /\ [][NextSearch]_vars

\* SpecShrunk: copytruncate disabled; the log is truncated in place, with or
\* without a copy kept as <name>.1, between the calls of a tailer that goes
\* on polling; the process ends only when it will be started again.  No
\* rotated file is ever taken up, so next() never switches files.
\* FairShrunk adds that the caller goes on calling next() and that a process
\* that ended is started again.
InitShrunk == InitWith([DefaultConfig EXCEPT !.copytruncate = FALSE])

ExitToRestart == runs < MaxRuns /\ Exit

NextShrunk ==
    \/ AtRest /\ AppendLine
    \/ AtRest /\ CopyTruncate
    \/ AtRest /\ Truncate
    \/ ReadSteps
    \/ ExitToRestart
    \/ Start

SpecShrunk == InitShrunk /\ [][NextShrunk]_vars

FairShrunk ==
    /\ SpecShrunk
    /\ WF_vars(ReadSteps)
    /\ WF_vars(Start)

\* SpecGap: default configuration; the log is rotated by renaming in two
\* steps, so that for a while no file stands at the monitored path; files
\* change between the calls of the tailer.
InitGap == InitWith(DefaultConfig)

NextGap ==
    \/ AtRest /\ AppendLine
    \/ AtRest /\ WriterReopen
    \/ AtRest /\ RenameAway
    \/ AtRest /\ CreateNew
    \/ ReadSteps
    \/ IsNewFails
    \/ GetFails
    \/ SwitchSteps
    \/ Exit
    \/ Start

SpecGap == InitGap /\ [][NextGap]_vars

\* ================================================================ claims

\* ---------------------------------------------------------------------
\* C1  No duplication across restarts.  Under SpecRuns the lines returned
\* over all runs, concatenated, are always a prefix of the bytes appended
\* (nothing twice, nothing out of order, nothing skipped), and they are all
\* of them whenever a run signals EXHAUSTED and nothing was appended since
\* that call began.
C1_NoDuplicationAcrossRestarts ==
    /\ IsPrefix(Flat(delivered), written)
    /\ (pc = "idle" /\ result = "exhausted" /\ ~hist.dirty)
          => Flat(delivered) = written

\* a later run, started from a sidecar with a position inside the file,
\* returned a line
C1_Witness ==
    /\ runs >= 2
    /\ offset > 0
    /\ pc = "idle"
    /\ result = "line"
    /\ Len(delivered) >= 2

\* ---------------------------------------------------------------------
\* C2  Idempotence of full reads, as claimed: once a call has signalled
\* EXHAUSTED, no call reads a line as long as no file is changed, whether it
\* is made by the same object or by a new one built from the sidecar.
C2_SecondPassEmpty_Original ==
    hist.quiet >= 1 => line = NoLine

\* C2 as amended: the second pass reads no line when it is made by the same
\* object, or by a new object when save_on_end is enabled and no __init__
\* since the first pass suspected a rotation.
C2_SecondPassEmpty ==
    ( /\ hist.quiet >= 1
      /\ \/ hist.quietRun = runs
         \/ cfg.save_on_end /\ hist.plainSince )
    => line = NoLine

\* a new object built from the sidecar completed a second pass over an
\* unmodified, non-empty file
C2_Witness ==
    /\ hist.quiet = 2
    /\ hist.crossed
    /\ cfg.save_on_end
    /\ hist.plainSince
    /\ offset > 0
    /\ pc = "idle"

\* ---------------------------------------------------------------------
\* The lines of this run, in the order returned, start at position o of
\* inode i (or, when nothing is left there, at byte 0 of another file), each
\* line starts where the line before it ended, and a line of another file
\* starts at byte 0 and is never followed by a line of inode i.
RunOrder(i, o) ==
    \A k \in 1..Len(delivered) :
        LET e == delivered[k]
        IN  IF k = 1
            THEN \/ e.ino = i /\ e.from = o
                 \/ e.ino # i /\ e.from = 0
            ELSE LET p == delivered[k - 1]
                 IN  \/ e.ino = p.ino /\ e.from = p.from + Len(p.bytes)
                     \/ e.ino # p.ino /\ e.ino # i /\ e.from = 0

\* every line returned is what the file holds at the place it was read from
FromFiles ==
    \A k \in 1..Len(delivered) :
        LET e == delivered[k]
        IN  /\ e.from + Len(e.bytes) <= Size(e.ino)
            /\ e.bytes = SubSeq(files[e.ino], e.from + 1, e.from + Len(e.bytes))

\* C3  Rotation continuity.  When __init__ found the monitored path's inode
\* different from the persisted one and located the rotated file with the
\* persisted inode, then (as long as no further rotation happens) the lines
\* returned are the rotated file's from the persisted offset on, then the
\* new file's from byte 0; the switch to the new file is made only when the
\* rotated file has no further line.
C3_RotationContinuity ==
    (hist.initMode = "drain" /\ hist.undisturbed /\ pc # "none") =>
        /\ RunOrder(hist.loaded[1], hist.loaded[2])
        /\ \A k \in 1..Len(delivered) :
               delivered[k].ino \in {hist.loaded[1], dir[LogName]}
        /\ (pc = "switch" /\ rotated_logfile # None) =>
               /\ fh.ino = hist.loaded[1]
               /\ get_next_line(fh) = << >>
        /\ (rotated_logfile # None /\ fh.open) => fh.ino = hist.loaded[1]

\* the unread tail of the rotated file was returned first, then a line of
\* the new file
C3_Witness ==
    /\ hist.initMode = "drain"
    /\ hist.undisturbed
    /\ hist.loaded[2] > 0
    /\ Len(delivered) >= 2
    /\ delivered[1].ino = hist.loaded[1]
    /\ delivered[1].from = hist.loaded[2]
    /\ delivered[Len(delivered)].ino = dir[LogName]
    /\ dir[LogName] # hist.loaded[1]

\* ---------------------------------------------------------------------
\* C4  Reset.  When __init__ suspects a rotation, copytruncate is enabled
\* and no rotated file is validated, the offset is 0, the sidecar holds
\* (inode of the monitored path, 0) when the constructor is done and before
\* any line is read, and (as long as no further rotation happens) the lines
\* returned are the content of the monitored file from byte 0.
C4_ResetToStart ==
    (hist.initMode = "reset" /\ hist.undisturbed /\ pc # "none") =>
        /\ cfg.copytruncate
        /\ offset = 0
        /\ (hist.fresh /\ pc \in {"upd", "updw"}) => delivered = << >>
        /\ (hist.fresh /\ ~hist.updated /\ pc = "idle") =>
               /\ offset_file = [exists |-> TRUE,
                                 lines |-> << dir[LogName], 0 >>]
               /\ fh = [open |-> TRUE, ino |-> dir[LogName], pos |-> 0]
        /\ RunOrder(dir[LogName], 0)
        /\ \A k \in 1..Len(delivered) : delivered[k].ino = dir[LogName]
        /\ FromFiles

\* after a reset a line was returned from byte 0 of the monitored file,
\* although the sidecar held a position further on
C4_Witness ==
    /\ hist.initMode = "reset"
    /\ hist.undisturbed
    /\ hist.loaded[2] > 0
    /\ Len(delivered) >= 1
    /\ delivered[1].from = 0
    /\ delivered[1].ino = dir[LogName]

\* ---------------------------------------------------------------------
\* C5  Partial-line exclusion.  With full_lines no line without a final NL
\* is returned, and a call whose read met an unterminated fragment ends
\* with EXHAUSTED and with the handle left at the start of that fragment (so
\* that the completed line is read from there later).
C5_PartialLineRevisited ==
    cfg.full_lines =>
        /\ \A k \in 1..Len(delivered) : EndsNL(delivered[k].bytes)
        /\ (hist.frag # NoFrag /\ pc = "idle") =>
               /\ result = "exhausted"
               /\ fh.open
               /\ << fh.ino, fh.pos >> = hist.frag

\* ---------------------------------------------------------------------
\* the data bytes returned to the caller so far
ReturnedBytes == { Flat(delivered)[k] : k \in 1..Len(Flat(delivered)) }

\* C6  The sidecar never holds a position beyond a line that was not yet
\* returned to the caller, in any state, the states between two steps of
\* next() included: every data byte that lies before the persisted offset
\* in the file with the persisted inode has been returned.
C6_NoCommitPastUndelivered ==
    (offset_file.exists /\ Len(offset_file.lines) = 2) =>
        LET i == offset_file.lines[1]
            o == offset_file.lines[2]
        IN  \A k \in 1..Size(i) :
                (k <= o /\ files[i][k] # NL) => files[i][k] \in ReturnedBytes

\* ---------------------------------------------------------------------
\* C7  Under any interleaving of the writer, a rename rotation and the
\* steps of next(), the lines returned are the lines written, each once and
\* in write order: what was returned is always a prefix of what was written.
C7_ExactlyOnceInOrder ==
    IsPrefix(Flat(delivered), written)

\* ---------------------------------------------------------------------
\* C8  Commit while draining.  A commit made while a rotated file is active
\* writes the inode and read position of the handle on that file; an object
\* constructed from such a sidecar, the rotated file still being the one
\* the search finds, has that file as rotated_logfile and that position as
\* offset, and returns the rest of the rotated file from that position and
\* then the monitored file from byte 0.
C8_CommitWhileDraining ==
    /\ (pc = "updw" /\ rotated_logfile # None) =>
           /\ pending = << fh.ino, fh.pos >>
           /\ hist.undisturbed => fh.ino = dir[rotated_logfile]
    /\ (hist.drainRun /\ hist.undisturbed /\ pc # "none") =>
           /\ offset_file_inode = hist.loaded[1]
           /\ hist.fresh => /\ rotated_logfile # None
                            /\ dir[rotated_logfile] = hist.loaded[1]
                            /\ offset = hist.loaded[2]
           /\ RunOrder(hist.loaded[1], hist.loaded[2])
           /\ FromFiles

\* an object built from a sidecar committed inside the rotated file returned
\* the rest of that file and then a line of the new file
C8_Witness ==
    /\ hist.drainRun
    /\ hist.undisturbed
    /\ cfg.paranoid
    /\ hist.loaded[2] > 0
    /\ Len(delivered) >= 2
    /\ delivered[1].ino = hist.loaded[1]
    /\ delivered[1].from = hist.loaded[2]
    /\ delivered[2].ino = dir[LogName]
    /\ delivered[2].from = 0

\* ---------------------------------------------------------------------
\* C9  Atomic commit: whenever the sidecar exists it holds a complete
\* position, two integers.
C9_SidecarAlwaysComplete ==
    offset_file.exists => Len(offset_file.lines) = 2

\* ---------------------------------------------------------------------
\* the sidecar was written by a commit, no file was changed since, an
\* object was constructed and update_offset_file was called on it at once
RoundTripDone ==
    /\ hist.initStable
    /\ hist.fresh
    /\ hist.updated
    /\ pc = "idle"

\* C10  Sidecar round trip, as claimed: after a construction and an
\* immediate update_offset_file, on files unchanged since the commit that
\* wrote the sidecar, the sidecar holds what it held before the
\* construction, wherever the persisted position lies.
C10_RoundTrip_Original ==
    RoundTripDone => offset_file.lines = hist.loaded

\* C10 as amended: the round trip leaves the sidecar as it was when
\* __init__ does not suspect a rotation (the persisted inode is that of the
\* monitored path, whose size is at least the persisted offset), or locates
\* the rotated file with the persisted inode.
C10_RoundTrip ==
    (RoundTripDone /\ hist.initMode \in {"plain", "drain"})
        => offset_file.lines = hist.loaded

\* the round trip was made on a position inside a rotated file
C10_Witness ==
    /\ RoundTripDone
    /\ hist.initMode = "drain"
    /\ hist.loaded[2] > 0
    /\ offset_file.lines = hist.loaded

\* ---------------------------------------------------------------------
\* C11  Every commit of update_offset_file leaves in the sidecar exactly two
\* integers, the inode and then the read position of the handle that is
\* active when it commits: a handle on the rotated file while one is being
\* drained and on the monitored file otherwise (as long as no rotation
\* happened in the life of the object), whatever __init__ had loaded.
C11_CommitIsActiveHandle ==
    [][ (pc = "updw" /\ pc' \notin {"updw", "none"}) =>
            /\ fh'.open
            /\ Len(offset_file'.lines) = 2
            /\ offset_file'.lines = << fh'.ino, fh'.pos >>
            /\ hist.undisturbed =>
                   fh'.ino = (IF rotated_logfile # None
                              THEN dir[rotated_logfile] ELSE dir[LogName])
      ]_vars

\* a commit was made on the monitored file by an object that had loaded the
\* inode and offset of the rotated file
C11_Witness ==
    /\ pc = "idle"
    /\ hist.stable
    /\ hist.initMode = "drain"
    /\ hist.undisturbed
    /\ hist.loaded[2] > 0
    /\ fh.open
    /\ fh.ino = dir[LogName]
    /\ offset_file.lines = << fh.ino, fh.pos >>
    /\ offset_file.lines # << offset_file_inode, offset >>
    /\ fh.pos > 0

\* ---------------------------------------------------------------------
\* C12  Constructing a tailer never fails on a sidecar that exists and does
\* not hold exactly two integers: the construction completes with inode 0
\* and offset 0 (no prior position).
C12_MalformedSidecarTolerated ==
    /\ result # "ValueError"
    /\ (pc = "idle" /\ hist.fresh /\ ~(Len(hist.loaded) = 2)) =>
           (offset_file_inode = 0 /\ offset = 0)

\* ---------------------------------------------------------------------
\* C13  Whenever the handle is opened it is positioned at the end of the
\* file exactly when read_from_end is configured, __init__ found no
\* persisted position (sidecar absent or empty) and it is the first open of
\* the run; on every other open it is positioned at the tracked offset.
C13_SeekEndOnlyOnFreshFirstOpen ==
    [][ (pc # "none" /\ pc' # "none" /\ ~fh.open /\ fh'.open) =>
            filehandle.pos = (IF /\ cfg.read_from_end
                                 /\ Len(hist.loaded) = 0
                                 /\ counter = 0
                              THEN Size(filehandle.ino) ELSE offset)
      ]_vars

\* ---------------------------------------------------------------------
\* C14  Commit policy after a line.  A read that yields a line adds one to
\* since_update and a completed update_offset_file sets it to 0.  When
\* next() is about to return a line: under paranoid the sidecar has just
\* been rewritten with the position after that line and the count is 0;
\* otherwise under every_n = N > 0 the sidecar is rewritten exactly when the
\* count has reached N, so the count is below N; with neither, no commit is
\* made for the line.
C14_CommitPolicyAfterLine ==
    /\ [](pc = "ret" =>
            IF cfg.paranoid
            THEN since_update = 0 /\ offset_file.lines = << fh.ino, fh.pos >>
            ELSE IF cfg.every_n > 0
            THEN /\ since_update < cfg.every_n
                 /\ since_update = 0 => offset_file.lines = << fh.ino, fh.pos >>
            ELSE since_update >= 1)
    /\ []((pc = "upd" /\ retpc = "ret") =>
            (cfg.paranoid \/ (cfg.every_n > 0 /\ since_update = cfg.every_n)))
    /\ []((pc = "idle" /\ result = "line") =>
            /\ cfg.paranoid => since_update = 0
            /\ (~cfg.paranoid /\ cfg.every_n > 0) => since_update < cfg.every_n)
    /\ [][ /\ (line' # line /\ line' # NoLine) => since_update' = since_update + 1
           /\ (pc = "updw" /\ pc' \notin {"updw", "none"}) => since_update' = 0
         ]_vars

\* under every_n = 2 the second line was committed and a third line was
\* returned without a commit
C14_Witness ==
    /\ cfg.every_n = 2
    /\ runs = 1
    /\ pc = "idle"
    /\ result = "line"
    /\ Len(delivered) = 3
    /\ since_update = 1
    /\ SidecarHas
    /\ offset_file.lines = << delivered[2].ino,
                              delivered[2].from + Len(delivered[2].bytes) >>

\* ---------------------------------------------------------------------
\* C15  Commit at EXHAUSTED.  With save_on_end, next() raises StopIteration
\* only right after a completed update_offset_file of that call, and the
\* sidecar then holds the inode and position of the open handle; without
\* save_on_end the call reaches the raise with no commit step and the
\* sidecar untouched.  When the read after the switch finds the monitored
\* file empty, the call goes on to EXHAUSTED (committing (inode of that
\* file, 0) under save_on_end) with the handle on that file at 0.
C15_CommitAtExhausted ==
    /\ []((pc = "raise" /\ cfg.save_on_end) =>
            (fh.open /\ offset_file.lines = << fh.ino, fh.pos >>))
    /\ []((pc \in {"upd", "updw"} /\ retpc = "raise") => cfg.save_on_end)
    /\ [][ /\ (pc # "raise" /\ pc' = "raise") =>
                 IF cfg.save_on_end THEN pc = "updw"
                 ELSE pc \in {"isnew", "get2"} /\ offset_file' = offset_file
           /\ (pc = "get2" /\ pc' \notin {"get2", "none"}
                           /\ Size(dir[LogName]) = 0) =>
                 /\ line' = NoLine
                 /\ fh' = [open |-> TRUE, ino |-> dir[LogName], pos |-> 0]
                 /\ pc' = (IF cfg.save_on_end THEN "upd" ELSE "raise")
         ]_vars

\* a rotated file was drained and, in the call that found it exhausted, the
\* new monitored file was empty: EXHAUSTED, the sidecar holds (new inode, 0)
C15_Witness ==
    /\ pc = "idle"
    /\ result = "exhausted"
    /\ cfg.save_on_end
    /\ hist.initMode = "drain"
    /\ hist.undisturbed
    /\ Len(delivered) >= 1
    /\ counter = 2
    /\ fh.open
    /\ fh.ino = dir[LogName]
    /\ fh.ino # hist.loaded[1]
    /\ Size(fh.ino) = 0
    /\ offset_file.lines = << dir[LogName], 0 >>

\* ---------------------------------------------------------------------
\* C16  Teardown.  When the object is torn down between two calls, the
\* handle is closed; with save_on_end and lines read since the last commit
\* the sidecar then holds the inode and position the handle had, and
\* without save_on_end the sidecar is left as it was.
C16_CommitAtTeardown ==
    [][ (pc = "idle" /\ pc' = "none") =>
            /\ ~fh'.open
            /\ (cfg.save_on_end /\ since_update > 0) =>
                   offset_file'.lines = << filehandle.ino, filehandle.pos >>
            /\ ~cfg.save_on_end => offset_file' = offset_file
      ]_vars

\* ---------------------------------------------------------------------
\* C17  With the olddir argument naming an existing directory, the rotated
\* file is looked for in that directory and not in the log's own: an
\* object constructed when the file with the persisted inode is
\* <olddir>/<name>.1 has it as rotated_logfile, and no rotated_logfile is
\* ever a logrotate candidate of the log's own directory; with no such
\* directory the log's own directory is searched.
C17_OlddirSearched ==
    /\ (cfg.olddir # None /\ DirExists(cfg.olddir)) =>
           /\ rotated_logfile \in OldNames \cup {None, "log.0"}
           /\ ( /\ pc = "idle"
                /\ hist.fresh
                /\ hist.undisturbed
                /\ Len(hist.loaded) = 2
                /\ hist.loaded[1] # dir[LogName]
                /\ dir[Join(cfg.olddir, "log.1")] = hist.loaded[1] )
              => rotated_logfile = Join(cfg.olddir, "log.1")
    /\ (cfg.olddir = None \/ ~DirExists(cfg.olddir)) =>
           rotated_logfile \notin OldNames

\* ---------------------------------------------------------------------
\* C18  The consumer persisted the Offset paired with line k and no commit
\* followed in that run.  The next object, when the file that holds line k
\* is the monitored file or the rotated file its search finds and no
\* rotation happens in its life, returns the lines written after line k,
\* in write order, starting with line k+1.  (Holds under SpecOffsetsPrompt,
\* not under SpecOffsets: a line appended to the rotated file after the
\* tailer has switched to the new file is never returned.)
C18_ResumeAfterPersistedOffset ==
    ( /\ hist.kept # NoKept
      /\ runs = hist.kept.run + 1
      /\ pc # "none"
      /\ hist.initMode \in {"plain", "drain"}
      /\ hist.undisturbed )
    => \A j \in 1..Len(delivered) :
           delivered[j].bytes = << hist.kept.id + j, NL >>

\* ---------------------------------------------------------------------
\* C19  next() reads the monitored file (no rotated file is active), gets
\* no line, and the file it holds, still the file at the monitored path,
\* is now shorter than its read position: it was truncated in place during
\* the life of the object.  Then that call does not end in EXHAUSTED at the
\* stale position: it leaves the handle and takes up a validated rotated
\* file, or reopens the monitored path at offset 0; and no call ends in
\* EXHAUSTED while the held monitored file has content below the read
\* position.
TruncatedUnderHandle ==
    /\ rotated_logfile = None
    /\ fh.open
    /\ fh.ino = dir[LogName]
    /\ Size(fh.ino) < fh.pos

C19_TruncationSeenInCall ==
    /\ [][ (pc = "isnew" /\ pc' # "isnew" /\ TruncatedUnderHandle) =>
               pc' = "switch" ]_vars
    /\ [][ (pc = "raise" /\ pc' = "idle" /\ TruncatedUnderHandle) =>
               Size(fh.ino) = 0 ]_vars

\* ---------------------------------------------------------------------
\* C20  The monitored path was renamed under the open handle and a new file
\* stands at the path.  A call of next() that finds the held file not yet
\* read to its end returns the next line of the held file; next() leaves the
\* held file only when the read position equals its size; it then closes
\* the handle and sets the offset to 0, and the read that follows in the
\* same call opens the monitored path (one more open is counted) and yields
\* the first line of the new file, or EXHAUSTED if the new file is empty.
RenamedUnderHandle ==
    /\ rotated_logfile = None
    /\ fh.open
    /\ dir[LogName] # 0
    /\ fh.ino # dir[LogName]

\* the second read of a call that left a file of the monitored path (not a
\* rotated file found by __init__)
LeftRenamedFile ==
    /\ pc = "get2"
    /\ ~fh.open
    /\ (hist.initMode # "drain" \/ counter >= 2)

C20_RenameFollowedAtEnd ==
    /\ [][ (pc = "get1" /\ pc' \notin {"get1", "none"} /\ RenamedUnderHandle
               /\ fh.pos < Size(fh.ino)) =>
               /\ pc' \in {"ret", "upd"}
               /\ fh'.ino = fh.ino
               /\ line' = [ino |-> fh.ino, from |-> fh.pos,
                           bytes |-> ReadLine(files[fh.ino], fh.pos)] ]_vars
    /\ [][ (pc = "isnew" /\ pc' = "switch" /\ rotated_logfile = None) =>
               /\ RenamedUnderHandle
               /\ fh.pos = Size(fh.ino) ]_vars
    /\ [][ (pc = "isnew" /\ pc' \notin {"isnew", "none"}
               /\ RenamedUnderHandle
               /\ fh.pos = Size(fh.ino)) => pc' = "switch" ]_vars
    /\ [][ (pc = "switch" /\ pc' = "get2") =>
               /\ ~fh'.open
               /\ offset' = 0
               /\ rotated_logfile' = None ]_vars
    /\ [][ (LeftRenamedFile /\ pc' \notin {"get2", "none"}) =>
               /\ fh'.open
               /\ fh'.ino = dir[LogName]
               /\ counter' = counter + 1
               /\ IF Size(dir[LogName]) = 0
                  THEN pc' \in {"upd", "raise"} /\ retpc' = "raise"
                  ELSE /\ pc' \in {"ret", "upd"}
                       /\ line' = [ino |-> dir[LogName], from |-> 0,
                                   bytes |-> ReadLine(files[dir[LogName]], 0)]
          ]_vars

\* ---------------------------------------------------------------------
\* C21  The candidate the search of __init__ returned is: <path>.0 when it
\* exists together with <path>.1.gz and is strictly newer; otherwise the
\* greatest name, in lexicographic order, of the first pattern that matches
\* an existing file, the patterns taken in the order .1, .1.gz, the date
\* suffixes as listed, the patterns of the caller; and no candidate exactly
\* when neither holds.
Present(g) == { n \in g : dir[n] # 0 }

SavelogPair ==
    /\ dir["log.0"] # 0
    /\ dir["log.1.gz"] # 0
    /\ mtime[dir["log.0"]] > mtime[dir["log.1.gz"]]

PatternOrder ==
    << {"log.1"}, {"log.1.gz"}, {"log-2024-01-01"},
       {"log-20240101", "log-20240102"}, {"log-20240101.gz"},
       {"log.2024-01-01"} >> \o cfg.log_patterns

Winning(k) ==
    /\ Present(PatternOrder[k]) # {}
    /\ \A j \in 1..(k - 1) : Present(PatternOrder[j]) = {}

C21_OrderedCandidateSearch ==
    (hist.candidate # NotCalled /\ hist.undisturbed) =>
        /\ SavelogPair => hist.candidate = "log.0"
        /\ ~SavelogPair =>
              /\ \A k \in 1..Len(PatternOrder) :
                     Winning(k) =>
                        /\ hist.candidate \in Present(PatternOrder[k])
                        /\ \A m \in Present(PatternOrder[k]) :
                               Rank(m) <= Rank(hist.candidate)
              /\ hist.candidate = None <=>
                     \A k \in 1..Len(PatternOrder) :
                        Present(PatternOrder[k]) = {}

\* the search chose the greater of two names of the date pattern, below
\* which stood no file of a pattern of the caller
C21_Witness ==
    /\ hist.candidate = "log-20240102"
    /\ dir["log-20240101"] # 0
    /\ hist.undisturbed
    /\ cfg.log_patterns # << >>
    /\ pc = "idle"

\* ---------------------------------------------------------------------
\* C22  After the search of __init__ returned candidate c for the persisted
\* inode p, the object is constructed (no exception) and: c is the rotated
\* file when its inode is p; otherwise, when the inode of the monitored
\* path is p, c is the rotated file if copytruncate is enabled, and if it
\* is disabled there is no rotated file and the shrink warning was written;
\* in every other case, and without a candidate, there is no rotated file
\* (and no shrink warning).
C22_ValidationTable ==
    (pc # "none" /\ hist.fresh /\ hist.undisturbed
       /\ hist.candidate # NotCalled) =>
        LET c == hist.candidate
            p == offset_file_inode
            shrank == "shrank" \in hist.warned
        IN  IF c = None THEN rotated_logfile = None /\ ~shrank
            ELSE IF dir[c] = p THEN rotated_logfile = c /\ ~shrank
            ELSE IF dir[LogName] = p
                 THEN IF cfg.copytruncate
                      THEN rotated_logfile = c /\ ~shrank
                      ELSE rotated_logfile = None /\ shrank
            ELSE rotated_logfile = None /\ ~shrank

\* copytruncate disabled, the monitored path still has the persisted inode
\* and a candidate with another inode stands in the directory
C22_Witness ==
    /\ pc = "idle"
    /\ hist.fresh
    /\ ~cfg.copytruncate
    /\ hist.candidate \notin {NotCalled, None}
    /\ dir[LogName] = offset_file_inode
    /\ rotated_logfile = None
    /\ "shrank" \in hist.warned

\* ---------------------------------------------------------------------
\* C23  copytruncate is disabled, the monitored file was smaller than the
\* persisted offset when the object was constructed, and no rotated file
\* was found.  Then __init__ wrote a warning, self.offset is the persisted
\* offset, and the sidecar is as __init__ found it.
ShrunkAtInit ==
    /\ pc = "idle"
    /\ hist.fresh
    /\ hist.undisturbed
    /\ ~cfg.copytruncate
    /\ Len(hist.loaded) = 2
    /\ Size(dir[LogName]) < hist.loaded[2]
    /\ rotated_logfile = None

C23_ShrinkIgnoredWithWarning ==
    ShrunkAtInit =>
        /\ hist.warned # {}
        /\ offset = hist.loaded[2]
        /\ offset_file = [exists |-> TRUE, lines |-> hist.loaded]

\* ---------------------------------------------------------------------
\* C24  copytruncate is disabled and the position the tailer tracks in the
\* monitored file lies beyond the end of that file.  Then, the caller going
\* on polling and the process being restarted when it ends, the tailer
\* eventually stands at offset 0 of the monitored file.
TrackedOffset == IF fh.open THEN fh.pos ELSE offset

PastEnd ==
    /\ pc # "none"
    /\ ~cfg.copytruncate
    /\ rotated_logfile = None
    /\ fh.open => fh.ino = dir[LogName]
    /\ TrackedOffset > Size(dir[LogName])

BackAtStart ==
    /\ pc # "none"
    /\ rotated_logfile = None
    /\ TrackedOffset = 0

C24_EventualReset == PastEnd ~> BackAtStart

\* ---------------------------------------------------------------------
\* C25  Whenever a position is written to the sidecar, its offset is at most
\* the size, at that moment, of the file that has its inode.
C25_CommittedOffsetWithinFile ==
    [][ (offset_file' # offset_file /\ Len(offset_file'.lines) = 2) =>
            offset_file'.lines[2] <= Len(files'[offset_file'.lines[1]])
      ]_vars

\* ---------------------------------------------------------------------
\* C26  On one tailer: the Offset that goes with a returned line is greater,
\* by Offset.__lt__, than the Offset of the line returned before it; the
\* counter never decreases, and it grows, by exactly one, exactly in the
\* steps that open the file handle.
C26_OffsetsIncrease ==
    /\ [][ (pc = "ret" /\ pc' = "idle") =>
               /\ hist'.lastOffset = OffsetNow
               /\ OffsetLt(hist.lastOffset, hist'.lastOffset)
               /\ ~OffsetLt(hist'.lastOffset, hist.lastOffset) ]_vars
    /\ [][ (pc # "none" /\ pc' # "none") =>
               counter' = IF ~fh.open /\ fh'.open THEN counter + 1
                          ELSE counter ]_vars

\* a line of the monitored file was returned after the lines of the rotated
\* file the object had opened first
C26_Witness ==
    /\ pc = "idle"
    /\ result = "line"
    /\ hist.lastOffset.counter = 2
    /\ Len(delivered) >= 2
    /\ delivered[1].ino # hist.lastOffset.inode

\* ---------------------------------------------------------------------
\* C27  The object has one handle at most: a step gives it a handle on a
\* file only when it holds no open handle, and that file is the rotated
\* file if one is being drained and the file at the monitored path
\* otherwise; the step of next() that leaves a file closes the handle, and
\* only the step after it opens the next one.
HandleOpened == fh'.open /\ (~fh.open \/ fh'.ino # fh.ino)

C27_OneHandle ==
    /\ [][ (pc' # "none" /\ HandleOpened) =>
               /\ ~fh.open
               /\ fh'.ino = (IF rotated_logfile # None
                             THEN dir[rotated_logfile] ELSE dir[LogName])
               /\ rotated_logfile' = rotated_logfile ]_vars
    /\ [][ (pc = "switch" /\ pc' = "get2") =>
               (fh.open /\ ~fh'.open /\ rotated_logfile' = None) ]_vars
    /\ [][ (pc = "get2" /\ pc' \notin {"get2", "none"}) =>
               (~fh.open /\ fh'.open /\ fh'.ino = dir[LogName]) ]_vars

\* the handle on the rotated file was closed and the monitored path opened
C27_Witness ==
    /\ pc = "idle"
    /\ hist.initMode = "drain"
    /\ counter = 2
    /\ fh.open
    /\ fh.ino = dir[LogName]
    /\ Len(delivered) >= 2
    /\ delivered[1].ino # fh.ino

\* ---------------------------------------------------------------------
\* C28  The search of __init__ returned a candidate whose inode is not the
\* persisted inode, and the monitored path does not have the persisted
\* inode either.  Then there is no rotated file, whatever other files the
\* directory holds, and with copytruncate enabled the object starts at
\* offset 0 (the reset).
CandidateRejected ==
    /\ pc # "none"
    /\ hist.fresh
    /\ hist.undisturbed
    /\ hist.candidate \notin {NotCalled, None}
    /\ dir[hist.candidate] # offset_file_inode
    /\ dir[LogName] # offset_file_inode

C28_OnlyTheCandidateIsValidated ==
    CandidateRejected =>
        /\ rotated_logfile = None
        /\ cfg.copytruncate =>
              /\ hist.initMode = "reset"
              /\ offset = 0
              /\ TrackedOffset = 0
        /\ ~cfg.copytruncate => offset = hist.loaded[2]

\* a file of a pattern of lower priority has the persisted inode
C28_Witness ==
    /\ CandidateRejected
    /\ pc = "idle"
    /\ cfg.copytruncate
    /\ \E n \in SearchNames :
          /\ dir[n] = offset_file_inode
          /\ n # hist.candidate
    /\ offset = 0
    /\ offset_file.lines = << dir[LogName], 0 >>

\* ---------------------------------------------------------------------
\* C29  full_lines is enabled and a rotated file is being drained.  A read
\* that meets an unterminated fragment returns nothing; next() then leaves
\* the rotated file, closes it and goes on with the monitored path at offset
\* 0; and the fragment it left is returned neither by that object nor by an
\* object started from a sidecar position in the file next() went on with.
FragmentAhead ==
    LET l == ReadLine(files[filehandle.ino], filehandle.pos)
    IN  l # << >> /\ ~EndsNL(l)

C29_FragmentOfRotatedFileLost ==
    /\ [][ (pc = "get1" /\ pc' \notin {"get1", "none"} /\ cfg.full_lines
               /\ rotated_logfile # None /\ FragmentAhead) =>
               (pc' = "isnew" /\ line' = NoLine /\ fh'.pos = filehandle.pos)
          ]_vars
    /\ [][ (pc = "isnew" /\ pc' \notin {"isnew", "none"}
               /\ rotated_logfile # None) => pc' = "switch" ]_vars
    /\ [][ (pc = "switch" /\ pc' = "get2" /\ fh.pos < Size(fh.ino)) =>
               /\ hist'.lost # {}
               /\ ~fh'.open
               /\ rotated_logfile' = None
               /\ offset' = 0 ]_vars
    /\ [](\A r \in hist.lost :
             \A j \in 1..Len(delivered) :
                \A k \in 1..Len(delivered[j].bytes) :
                   delivered[j].bytes[k] # r.byte)

\* the writer completed the line in the rotated file after next() had left
\* it, and an object started from a position in the new file has read on
C29_Witness ==
    /\ cfg.full_lines
    /\ pc = "idle"
    /\ hist.lost # {}
    /\ hist.initMode = "plain"
    /\ ~hist.fresh
    /\ dir["log.1"] # 0
    /\ EndsNL(files[dir["log.1"]])
    /\ \E r \in hist.lost :
          \E k \in 1..Size(dir["log.1"]) : files[dir["log.1"]][k] = r.byte

\* ---------------------------------------------------------------------
\* C30  next() read its handle on the monitored file to the end and no file
\* stands at the monitored path.  Then the call ends with an I/O error, not
\* with EXHAUSTED; the sidecar is as before, the handle is open where it
\* was.  A later call leaves the held file only when a file stands at the
\* path and the held file is read to its end, and then reads the new file
\* from offset 0: the lines the object returns follow one another without a
\* gap, within the old file and from the start of the new one.
NoGapInDelivered ==
    \A j \in 1..(Len(delivered) - 1) :
        IF delivered[j + 1].ino = delivered[j].ino
        THEN delivered[j + 1].from =
                 delivered[j].from + Len(delivered[j].bytes)
        ELSE delivered[j + 1].from = 0

=============================================================================
